---- MODULE Spec2Model ----
(***************************************************************************)
(* PVFLL_002 display controller: the rotating QR token (qr_token.py), the   *)
(* remote status client (api.py), the push listener (pusher_events.py),    *)
(* the boot sequence (boot.py) and the orchestration loop (main.py).       *)
(*                                                                         *)
(* Three specifications share the module:                                  *)
(*   SpecToken  the pure token functions applied to bounded time readings  *)
(*   SpecFetch  one call of fetch_box_status, attempt by attempt           *)
(*   Spec       boot, tick loop, push callback thread and signal handler   *)
(***************************************************************************)
EXTENDS Integers, Sequences, FiniteSets, TLC

VARIABLES
    \* ---- SpecToken: inputs and results of the token functions
    tkCfg,      \* [dev, key]: DEVICE_ID and QR_SECRET of the run
    tkNowA,     \* a reading of time.time(), in units of 1/SubSec second
    tkNowB,     \* a second reading, tkNowA <= tkNowB
    tkPc,       \* "in" | "tok" | "url" | "rem": which function has been applied
    tkOutA,     \* the function's result on reading A
    tkOutB,     \* the function's result on reading B
    \* ---- SpecFetch: one call fetch_box_status(box, retries, delay)
    fbBox,      \* box_number
    fbRetries,  \* retries
    fbAttempt,  \* loop variable `attempt`
    fbSleeps,   \* number of time.sleep(delay) performed
    fbLast,     \* outcome of the latest attempt, "none" before the first
    fbResult,   \* [kind |-> "pending" | "return" | "raise", val |-> ...]
    \* ---- SpecEvent: one call of PusherListener._on_file_event(data)
    evPayload,  \* data: [text, json, box]
    evCb,       \* self.on_box_update: "none" | "ok" | "raises"
    evPc,       \* "in" | "done"
    evOut,      \* [kind |-> "return" | "raise", invoked, arg, exc]
    evData,     \* the snapshot the callback patches
    \* ---- Spec: environment
    keySet,     \* PUSHER_APP_KEY is configured (and pysher is importable)
    wifi,       \* is_wifi_connected()
    remote,     \* what the backend holds for each box
    budget,     \* [changes, failures]: remote changes and failed fetches so far
    clock,      \* seconds since process start (time.monotonic, time.time - StartUnix)
    \* ---- Spec: main thread (main.py, boot.py)
    pc,         \* position of the main thread
    proc,       \* "alive" | "exited" (sys.exit / main returned) | "crashed"
    running,    \* main.running
    current_box_data,
    current_qr_url,
    pusher_listener,  \* main.pusher_listener is not None
    data_lock,  \* holder of main.data_lock: "free" | "main" | "push"
    loc,        \* locals of main(): now_mono, current_slot, last_*
    fresh,      \* fetch_all_boxes' `results`, box 1 first
    spRet,      \* call site sync_poll returns to: "reconnect" | "periodic"
    ticks,      \* iterations of the tick loop so far
    haltedBy,   \* boot step that failed: "none" | "display" | "connect" | "fetch"
    \* ---- Spec: PusherListener and its transport thread
    connected,      \* PusherListener.connected
    on_box_update,  \* PusherListener.on_box_update is set
    pushers,        \* live pysher.Pusher transports subscribed to the channel
    pending,        \* boxes with a push event in flight
    cbPc,           \* position of the callback: "idle" | "fetch" | "patch" | "render" | "in_render"
    cbBox,          \* box_number of the running callback
    cbNew,          \* its new_data
    \* ---- Spec: signal handler frames on the main thread
    handlers,   \* stack of signal_handler frames (positions), innermost last
    \* ---- Spec: history
    did,        \* [signals, disconnects, clears, sleeps, drops]: how often each happened
    hc,         \* the connection-health check of the current tick
    sp,         \* the current sync_poll call
    cbStart,    \* current_box_data when the running callback began
    cbResync,   \* a sync_poll compared/replaced the snapshot during the callback
    tk          \* the current tick: which timers were due, which fired, the health POST

tokenVars == <<tkCfg, tkNowA, tkNowB, tkPc, tkOutA, tkOutB>>
fetchVars == <<fbBox, fbRetries, fbAttempt, fbSleeps, fbLast, fbResult>>
eventVars == <<evPayload, evCb, evPc, evOut, evData>>
envVars == <<keySet, wifi, remote, budget, clock>>
mainVars == <<pc, proc, running, current_box_data, current_qr_url, pusher_listener,
              data_lock, loc, fresh, spRet, ticks, haltedBy>>
listenerVars == <<connected, on_box_update, pushers, pending>>
pushVars == <<cbPc, cbBox, cbNew>>
sigVars == <<handlers>>
histVars == <<did, hc, sp, cbStart, cbResync, tk>>
sysVars == <<envVars, mainVars, listenerVars, pushVars, sigVars, histVars>>

(***************************************************************************)
(* qr_token.py                                                             *)
(***************************************************************************)
QR_INTERVAL_SECONDS == 30

\* Largest time reading (seconds) drawn by SpecToken, and the sub-second
\* resolution of a float reading.
MaxTime == 130
SubSec == 2

BASE_URL == <<"https://htmlpg.andrew-boylan.com">>

\* DEVICE_ID / QR_SECRET configurations: the default device with the secret
\* "abc", and another device id (a prefix of the default one) with QR_SECRET
\* unset, i.e. the empty key.
TokenConfigs ==
    { [dev |-> <<"p", "v", "f", "l", "l", "-", "0", "0", "2">>, key |-> <<"a", "b", "c">>],
      [dev |-> <<"p", "v", "f", "l", "l", "-", "0", "0">>, key |-> <<>>] }

DigitChar == <<"0", "1", "2", "3", "4", "5", "6", "7", "8", "9">>

\* str(n) for an integer, as the f-string formats time_slot.
RECURSIVE Decimal(_)
Decimal(n) ==
    IF n < 0 THEN <<"-">> \o Decimal(0 - n)
    ELSE IF n < 10 THEN <<DigitChar[n + 1]>>
    ELSE Decimal(n \div 10) \o <<DigitChar[(n % 10) + 1]>>

\* int(time.time()): truncation of a non-negative float reading.
IntOf(now) == now \div SubSec

\* time_slot = timestamp_seconds // QR_INTERVAL_SECONDS, rounding to nearest
\* instead of down.
TimeSlotRounded(ts) == (ts + (QR_INTERVAL_SECONDS \div 2)) \div QR_INTERVAL_SECONDS

\* time_slot = timestamp_seconds // QR_INTERVAL_SECONDS
TimeSlot(ts) == ts \div QR_INTERVAL_SECONDS

\* message without the time slot.
MessageNoSlot(dev, slot) == dev

\* message = f"{DEVICE_ID}{time_slot}"
Message(dev, slot) == dev \o Decimal(slot)

\* hmac.new(key, message, sha256).hexdigest(): an injective function of
\* (key, message).
Hmac(key, msg) == <<"hmac", key, msg>>

generate_token(cfg, ts) == Hmac(cfg.key, Message(cfg.dev, TimeSlot(ts)))

get_qr_url(cfg, ts) == BASE_URL \o <<"/v/">> \o cfg.dev \o <<"/">> \o <<generate_token(cfg, ts)>>

\* current_slot_end computed without the "+ 1".
SlotEndNoIncrement(now) == (IntOf(now) \div QR_INTERVAL_SECONDS) * QR_INTERVAL_SECONDS

\* current_slot_end = ((int(now) // QR_INTERVAL_SECONDS) + 1) * QR_INTERVAL_SECONDS
SlotEnd(now) == ((IntOf(now) \div QR_INTERVAL_SECONDS) + 1) * QR_INTERVAL_SECONDS

\* seconds_until_next_slot at the reading `now`, in units of 1/SubSec second.
seconds_until_next_slot(now) == SlotEnd(now) * SubSec - now

TokenInit ==
    /\ tkCfg \in TokenConfigs
    /\ tkNowA \in 0..(MaxTime * SubSec)
    /\ tkNowB \in tkNowA..(MaxTime * SubSec)
    /\ tkPc = "in"
    /\ tkOutA = <<>>
    /\ tkOutB = <<>>

\* generate_token(int(time.time())) at both readings.
GenerateToken ==
    /\ tkPc = "in"
    /\ tkPc' = "tok"
    /\ tkOutA' = generate_token(tkCfg, IntOf(tkNowA))
    /\ tkOutB' = generate_token(tkCfg, IntOf(tkNowB))
    /\ UNCHANGED <<tkCfg, tkNowA, tkNowB>>

\* get_qr_url(int(time.time())) at both readings.
GetQrUrl ==
    /\ tkPc = "in"
    /\ tkPc' = "url"
    /\ tkOutA' = get_qr_url(tkCfg, IntOf(tkNowA))
    /\ tkOutB' = get_qr_url(tkCfg, IntOf(tkNowB))
    /\ UNCHANGED <<tkCfg, tkNowA, tkNowB>>

\* seconds_until_next_slot() at both readings.
SecondsUntilNextSlot ==
    /\ tkPc = "in"
    /\ tkPc' = "rem"
    /\ tkOutA' = seconds_until_next_slot(tkNowA)
    /\ tkOutB' = seconds_until_next_slot(tkNowB)
    /\ UNCHANGED <<tkCfg, tkNowA, tkNowB>>

(***************************************************************************)
(* api.py: fetch_box_status                                                *)
(***************************************************************************)
Boxes == {1, 2, 3, 4}

\* Largest `retries` argument drawn by SpecFetch.
MaxRetries == 3

\* What the remote holds for a box, as the JSON object's content.
RemoteValues == {"empty", "file"}

\* Outcome of one attempt's requests.get / raise_for_status / response.json:
\*   object     a JSON object
\*   transport  ConnectionError / Timeout          (a RequestException)
\*   http       raise_for_status's HTTPError       (a RequestException)
\*   not_json   response.json's JSONDecodeError    (a RequestException)
\*   non_object a JSON value that is no object (list, null, number, string):
\*              data.setdefault raises AttributeError, no RequestException
AttemptOutcomes == {"object", "transport", "http", "not_json", "non_object"}

IsRequestException(o) == o \in {"transport", "http", "not_json"}

\* The dict returned on success: the object with "empty" defaulted and
\* "type" derived from the name.
Snapshot(v) == [empty |-> (v = "empty"), content |-> v, error |-> "none"]

\* {"empty": True, "error": str(e)}
ErrorSnapshot(o) == [empty |-> TRUE, content |-> "empty", error |-> o]

IsSnapshot(x) ==
    /\ DOMAIN x = {"empty", "content", "error"}
    /\ x.empty \in BOOLEAN

\* The value a call returns when the for loop ends without a return
\* statement having run.
NoneValue == [none |-> TRUE]

FetchInit ==
    /\ fbBox \in Boxes
    /\ fbRetries \in 0..MaxRetries
    /\ fbAttempt = 0
    /\ fbSleeps = 0
    /\ fbLast = "none"
    /\ fbResult = [kind |-> "pending"]

\* range(retries) is exhausted: the function falls off its end.
FetchLoopEnd ==
    /\ fbResult.kind = "pending"
    /\ fbAttempt >= fbRetries
    /\ fbResult' = [kind |-> "return", val |-> NoneValue]
    /\ UNCHANGED <<fbBox, fbRetries, fbAttempt, fbSleeps, fbLast>>

\* What one iteration of the loop does with the attempt's outcome o and, for
\* a JSON object, its content v: return, raise, or sleep and try again.
AttemptResult(o, v, attempt, retries) ==
    IF o = "object" THEN [kind |-> "return", val |-> Snapshot(v)]
    ELSE IF ~IsRequestException(o) THEN [kind |-> "raise", val |-> o]
    ELSE IF attempt < retries - 1 THEN [kind |-> "retry", val |-> o]
    ELSE [kind |-> "return", val |-> ErrorSnapshot(o)]

FetchAttempt(o, v) ==
    /\ fbResult.kind = "pending"
    /\ fbAttempt < fbRetries
    /\ fbLast' = o
    /\ LET r == AttemptResult(o, v, fbAttempt, fbRetries) IN
       IF r.kind = "retry"
       THEN /\ fbSleeps' = fbSleeps + 1
            /\ fbAttempt' = fbAttempt + 1
            /\ UNCHANGED fbResult
       ELSE /\ fbResult' = r
            /\ UNCHANGED <<fbAttempt, fbSleeps>>
    /\ UNCHANGED <<fbBox, fbRetries>>

FetchStep == \E o \in AttemptOutcomes, v \in RemoteValues : FetchAttempt(o, v)

\* retries of a call that passes none (fetch_all_boxes, on_box_update).
DefaultRetries == 1

\* fetch_box_status(box_number) as its callers invoke it.
fetch_default(o, v) == AttemptResult(o, v, 0, DefaultRetries)

(***************************************************************************)
(* main.py, boot.py, pusher_events.py: the running system                  *)
(***************************************************************************)
CONNECTION_CHECK_INTERVAL == 60
SYNC_POLL_INTERVAL == 300

\* Bounds of the exploration.
MaxTicks == 1            \* iterations of the tick loop
MaxRemoteChanges == 1    \* changes of the backend's data
MaxFailures == 1         \* fetch attempts that fail
MaxSignals == 2          \* termination signals delivered
MaxPushers == 2          \* live transports told apart
MaxBootRender == 20      \* seconds the first full render can take
StartUnix == 100         \* time.time() at process start

\* Seconds one iteration of the tick loop can take: the sleep alone, or the
\* sleep and blocking work up to each of the three intervals.
Jumps == {1, QR_INTERVAL_SECONDS, CONNECTION_CHECK_INTERVAL, SYNC_POLL_INTERVAL}

\* Outcomes of a fetch attempt explored in the running system.
LoopOutcomes == {"object", "transport", "non_object"}

MainConfig == [dev |-> <<"p", "v", "f", "l", "l", "-", "0", "0", "2">>, key |-> <<"a", "b", "c">>]

\* int(time.time())
Wall(c) == StartUnix + c

NoCheck == [fired |-> FALSE, wasConnected |-> FALSE, connects |-> 0, fetchAlls |-> 0, renders |-> 0]
NoPoll == [active |-> FALSE, done |-> FALSE, fetched |-> FALSE, renders |-> 0, logged |-> FALSE,
           differed |-> FALSE]

NoTick == [dueRot |-> FALSE, dueConn |-> FALSE, dueSync |-> FALSE, dueHealth |-> FALSE,
           rot |-> FALSE, sync |-> FALSE, health |-> FALSE, post |-> "none",
           connAtFire |-> FALSE, rotRenders |-> 0, began |-> FALSE]

MainRuns == proc = "alive" /\ handlers = <<>>

SysStart ==
    /\ remote = [b \in Boxes |-> "empty"]
    /\ budget = [changes |-> 0, failures |-> 0]
    /\ clock = 0
    /\ pc = "boot_display"
    /\ running = TRUE
    /\ current_box_data = <<>>
    /\ current_qr_url = <<>>
    /\ pusher_listener = FALSE
    /\ data_lock = "free"
    /\ loc = [now_mono |-> 0, current_slot |-> 0, last_connection_check |-> 0,
              last_sync_poll |-> 0, last_health_report |-> 0, last_qr_slot |-> 0,
              connected |-> FALSE]
    /\ fresh = <<>>
    /\ spRet = "none"
    /\ ticks = 0
    /\ haltedBy = "none"
    /\ connected = FALSE
    /\ on_box_update = FALSE
    /\ pushers = 0
    /\ pending = {}
    /\ cbPc = "idle"
    /\ cbBox = 0
    /\ cbNew = <<>>
    /\ handlers = <<>>
    /\ did = [signals |-> 0, disconnects |-> 0, clears |-> 0, sleeps |-> 0, drops |-> 0,
              dropped |-> {}, clearFailed |-> 0, stale |-> {}, pushed |-> {}]
    /\ hc = NoCheck
    /\ sp = NoPoll
    /\ cbStart = <<>>
    /\ cbResync = FALSE
    /\ tk = NoTick

SysInit ==
    /\ keySet \in BOOLEAN
    /\ wifi \in BOOLEAN
    /\ proc = "alive"
    /\ SysStart

\* A fetch attempt may fail only while the failure budget lasts.
OutcomeAllowed(o) == o = "object" \/ budget.failures < MaxFailures

Spend(o) == IF o = "object" THEN budget ELSE [budget EXCEPT !.failures = @ + 1]

\* main after boot_sequence returned, taking a failed boot for a good one.
AfterBootIgnoresFailure(failed) == "main_set"

\* main after boot_sequence returned: `if initial_data is None` logs "Boot
\* failed. Halted." and waits in `while running: time.sleep(1)`; otherwise
\* main goes on to set the snapshot.
AfterBoot(failed) == IF failed THEN "halted" ELSE "main_set"

\* self.pusher = pysher.Pusher(...); connect(); subscribe(); bind(): one more
\* live transport delivers the channel's events (an earlier one is not closed).
Subscribed(n) == IF n < MaxPushers THEN n + 1 ELSE n

\* ---- boot.py: boot_sequence ------------------------------------------------

\* Step 1: init_display, load_file_icon, "Booting..." inside try/except.
BootDisplay(ok) ==
    /\ MainRuns /\ pc = "boot_display"
    /\ IF ok THEN pc' = "boot_wifi" /\ UNCHANGED haltedBy
             ELSE pc' = AfterBoot(TRUE) /\ haltedBy' = "display"
    /\ UNCHANGED <<envVars, proc, running, current_box_data, current_qr_url, pusher_listener,
                   data_lock, loc, fresh, spRet, ticks, listenerVars, pushVars, sigVars, histVars>>

\* Step 2: wait in the portal loop until is_wifi_connected().
BootWifi ==
    /\ MainRuns /\ pc \in {"boot_wifi", "boot_wifi_wait"}
    /\ IF wifi THEN pc' = "boot_connect"
               ELSE pc = "boot_wifi" /\ pc' = "boot_wifi_wait"
    /\ UNCHANGED <<envVars, proc, running, current_box_data, current_qr_url, pusher_listener,
                   data_lock, loc, fresh, spRet, ticks, haltedBy, listenerVars, pushVars,
                   sigVars, histVars>>

WifiUp ==
    /\ proc = "alive" /\ pc = "boot_wifi_wait" /\ ~wifi
    /\ wifi' = TRUE
    /\ UNCHANGED <<keySet, remote, budget, clock, mainVars, listenerVars, pushVars, sigVars, histVars>>

\* PusherListener.connect(): False without a key, False when the transport
\* raises, True once subscribed and bound.
ConnectReturns(key, outcome) == key /\ outcome = "ok"

\* connect() setting the flag when it returns True.
FlagAfterConnectSets(ok, flag) == ok \/ flag

\* self.connected after connect(): connect() does not assign it; only
\* _on_connect, _on_connection_failed, _on_error and disconnect() do.
FlagAfterConnect(ok, flag) == flag

\* Step 3: PusherListener() and connect(); a False return halts the boot.
BootConnect(outcome) ==
    /\ MainRuns /\ pc = "boot_connect"
    /\ IF ConnectReturns(keySet, outcome)
       THEN /\ pushers' = Subscribed(pushers)
            /\ pc' = "boot_fetch"
            /\ UNCHANGED haltedBy
       ELSE /\ pc' = AfterBoot(TRUE)
            /\ haltedBy' = "connect"
            /\ UNCHANGED pushers
    /\ connected' = FlagAfterConnect(ConnectReturns(keySet, outcome), connected)
    /\ fresh' = <<>>
    /\ UNCHANGED <<envVars, proc, running, current_box_data, current_qr_url, pusher_listener,
                   data_lock, loc, spRet, ticks, on_box_update, pending, pushVars,
                   sigVars, histVars>>

\* Step 4: fetch_all_boxes, one box per step; boot_sequence returns
\* (box_data, pusher_listener) and main binds both.
BootFetch(o) ==
    /\ MainRuns /\ pc = "boot_fetch"
    /\ OutcomeAllowed(o)
    /\ budget' = Spend(o)
    /\ LET r == fetch_default(o, remote[Len(fresh) + 1]) IN
       IF r.kind = "raise"
       THEN /\ pc' = AfterBoot(TRUE)
            /\ haltedBy' = "fetch"
            /\ UNCHANGED <<fresh, pusher_listener>>
       ELSE /\ fresh' = Append(fresh, r.val)
            /\ IF Len(fresh) + 1 = Cardinality(Boxes)
               THEN pc' = AfterBoot(FALSE) /\ pusher_listener' = TRUE
               ELSE pc' = "boot_fetch" /\ UNCHANGED pusher_listener
            /\ UNCHANGED haltedBy
    /\ UNCHANGED <<keySet, wifi, remote, clock, proc, running, current_box_data, current_qr_url,
                   data_lock, loc, spRet, ticks, listenerVars, pushVars, sigVars, histVars>>

\* ---- main.py: main, after boot ------------------------------------------------

\* with data_lock: current_box_data = initial_data
MainSet ==
    /\ MainRuns /\ pc = "main_set" /\ data_lock = "free"
    /\ current_box_data' = fresh
    /\ pc' = "main_qr"
    /\ UNCHANGED <<envVars, proc, running, current_qr_url, pusher_listener, data_lock, loc, fresh,
                   spRet, ticks, haltedBy, listenerVars, pushVars, sigVars, histVars>>

\* current_qr_url = get_qr_url()
MainQr ==
    /\ MainRuns /\ pc = "main_qr"
    /\ current_qr_url' = get_qr_url(MainConfig, Wall(clock))
    /\ pc' = "main_display"
    /\ UNCHANGED <<envVars, proc, running, current_box_data, pusher_listener, data_lock, loc, fresh,
                   spRet, ticks, haltedBy, listenerVars, pushVars, sigVars, histVars>>

\* display_boxes(initial_data, force_full=True, ...): a failure of the
\* renderer is not caught here.
MainDisplay(ok) ==
    /\ MainRuns /\ pc = "main_display"
    /\ IF ok THEN pc' = "main_attach" /\ UNCHANGED proc
             ELSE proc' = "crashed" /\ UNCHANGED pc
    /\ UNCHANGED <<envVars, running, current_box_data, current_qr_url, pusher_listener, data_lock,
                   loc, fresh, spRet, ticks, haltedBy, listenerVars, pushVars, sigVars, histVars>>

\* Seconds display_boxes(initial_data, force_full=True, ...) takes.
BootRenderTimes == {1, MaxBootRender}

\* display_boxes(initial_data, force_full=True, ...) returns after d seconds.
MainDisplayTakes(d) ==
    /\ MainRuns /\ pc = "main_display"
    /\ clock' = clock + d
    /\ pc' = "main_attach"
    /\ UNCHANGED <<keySet, wifi, remote, budget, proc, running, current_box_data, current_qr_url,
                   pusher_listener, data_lock, loc, fresh, spRet, ticks, haltedBy, listenerVars,
                   pushVars, sigVars, histVars>>

\* pusher_listener.on_box_update = on_box_update
MainAttach ==
    /\ MainRuns /\ pc = "main_attach"
    /\ on_box_update' = pusher_listener
    /\ pc' = "main_timers"
    /\ UNCHANGED <<envVars, proc, running, current_box_data, current_qr_url, pusher_listener,
                   data_lock, loc, fresh, spRet, ticks, haltedBy, connected, pushers, pending,
                   pushVars, sigVars, histVars>>

\* last_connection_check = last_sync_poll = last_health_report = monotonic();
\* last_qr_slot = int(time.time()) // QR_INTERVAL_SECONDS
MainTimers ==
    /\ MainRuns /\ pc = "main_timers"
    /\ loc' = [loc EXCEPT !.last_connection_check = clock, !.last_sync_poll = clock,
                          !.last_health_report = clock, !.last_qr_slot = TimeSlot(Wall(clock))]
    /\ pc' = "loop"
    /\ UNCHANGED <<envVars, proc, running, current_box_data, current_qr_url, pusher_listener,
                   data_lock, fresh, spRet, ticks, haltedBy, listenerVars, pushVars, sigVars,
                   histVars>>

\* ---- main.py: the tick loop ------------------------------------------------------

\* now_mono - last >= interval
Due(now, last, interval) == now - last >= interval

\* while running: time.sleep(1); now_mono, now_unix, current_slot are read.
TickSleep(d) ==
    /\ MainRuns /\ pc = "loop"
    /\ running
    /\ ticks < MaxTicks
    /\ ticks' = ticks + 1
    /\ clock' = clock + d
    /\ loc' = [loc EXCEPT !.now_mono = clock + d, !.current_slot = TimeSlot(Wall(clock + d))]
    /\ hc' = NoCheck
    /\ sp' = NoPoll
    /\ tk' = [NoTick EXCEPT
                 !.began = TRUE,
                 !.dueRot = TimeSlot(Wall(clock + d)) # loc.last_qr_slot,
                 !.dueConn = pusher_listener /\ Due(clock + d, loc.last_connection_check,
                                                    CONNECTION_CHECK_INTERVAL),
                 !.dueSync = Due(clock + d, loc.last_sync_poll, SYNC_POLL_INTERVAL),
                 !.dueHealth = Due(clock + d, loc.last_health_report, CONNECTION_CHECK_INTERVAL)]
    /\ pc' = "tick_rot"
    /\ UNCHANGED <<keySet, wifi, remote, budget, proc, running, current_box_data, current_qr_url,
                   pusher_listener, data_lock, fresh, spRet, haltedBy, listenerVars, pushVars,
                   sigVars, did, cbStart, cbResync>>

\* The rotation taken in every tick.
RotatesAlways(current, last) == TRUE

\* if current_slot != last_qr_slot:
Rotates(current, last) == current # last

\* QR rotation: if current_slot != last_qr_slot, take the new slot and URL
\* and call refresh_display.
TickRotate ==
    /\ MainRuns /\ pc = "tick_rot"
    /\ IF Rotates(loc.current_slot, loc.last_qr_slot)
       THEN /\ loc' = [loc EXCEPT !.last_qr_slot = loc.current_slot]
            /\ current_qr_url' = get_qr_url(MainConfig, Wall(clock))
            /\ tk' = [tk EXCEPT !.rot = TRUE]
            /\ pc' = "rot_render"
       ELSE /\ pc' = "tick_conn"
            /\ UNCHANGED <<loc, current_qr_url, tk>>
    /\ UNCHANGED <<envVars, proc, running, current_box_data, pusher_listener, data_lock, fresh,
                   spRet, ticks, haltedBy, listenerVars, pushVars, sigVars, did, hc, sp, cbStart,
                   cbResync>>

\* refresh_display of the rotation: with data_lock: display_boxes(...)
RotRenderStart ==
    /\ MainRuns /\ pc = "rot_render" /\ data_lock = "free"
    /\ data_lock' = "main"
    /\ tk' = [tk EXCEPT !.rotRenders = @ + 1]
    /\ pc' = "rot_in_render"
    /\ UNCHANGED <<envVars, proc, running, current_box_data, current_qr_url, pusher_listener, loc,
                   fresh, spRet, ticks, haltedBy, listenerVars, pushVars, sigVars, did, hc, sp,
                   cbStart, cbResync>>

\* display_boxes returns, or raises: nothing in the loop catches it.
RotRenderEnd(ok) ==
    /\ MainRuns /\ pc = "rot_in_render"
    /\ data_lock' = "free"
    /\ IF ok THEN pc' = "tick_conn" /\ UNCHANGED proc
             ELSE proc' = "crashed" /\ UNCHANGED pc
    /\ UNCHANGED <<envVars, running, current_box_data, current_qr_url, pusher_listener, loc, fresh,
                   spRet, ticks, haltedBy, listenerVars, pushVars, sigVars, histVars>>

\* Connection health check every CONNECTION_CHECK_INTERVAL.
TickConn ==
    /\ MainRuns /\ pc = "tick_conn"
    /\ IF pusher_listener /\ Due(loc.now_mono, loc.last_connection_check, CONNECTION_CHECK_INTERVAL)
       THEN /\ loc' = [loc EXCEPT !.last_connection_check = loc.now_mono]
            /\ hc' = [NoCheck EXCEPT !.fired = TRUE, !.wasConnected = connected]
            /\ pc' = IF ~connected THEN "reconnect" ELSE "tick_sync"
       ELSE /\ pc' = "tick_sync"
            /\ UNCHANGED <<loc, hc>>
    /\ UNCHANGED <<envVars, proc, running, current_box_data, current_qr_url, pusher_listener,
                   data_lock, fresh, spRet, ticks, haltedBy, listenerVars, pushVars, sigVars,
                   did, sp, cbStart, cbResync, tk>>

\* pusher_listener.connect(), then sync_poll() is entered.
Reconnect(outcome) ==
    /\ MainRuns /\ pc = "reconnect"
    /\ pushers' = IF ConnectReturns(keySet, outcome) THEN Subscribed(pushers) ELSE pushers
    /\ hc' = [hc EXCEPT !.connects = @ + 1, !.fetchAlls = @ + 1]
    /\ sp' = [NoPoll EXCEPT !.active = TRUE]
    /\ spRet' = "reconnect"
    /\ fresh' = <<>>
    /\ pc' = "sp_fetch"
    /\ connected' = FlagAfterConnect(ConnectReturns(keySet, outcome), connected)
    /\ UNCHANGED <<envVars, proc, running, current_box_data, current_qr_url, pusher_listener,
                   data_lock, loc, ticks, haltedBy, on_box_update, pending, pushVars,
                   sigVars, did, cbStart, cbResync, tk>>

\* The reconnect leaves last_sync_poll as it was.
AfterPollLocKeeps(ret, l) == l

\* Where sync_poll returns to, and what its caller does next: after the
\* reconnect last_sync_poll = now_mono, after the periodic poll nothing.
AfterPollPc(ret) == IF ret = "reconnect" THEN "tick_sync" ELSE "tick_health"

AfterPollLoc(ret, l) == IF ret = "reconnect" THEN [l EXCEPT !.last_sync_poll = l.now_mono] ELSE l

\* sync_poll: fresh_data = fetch_all_boxes(), one box per step; an exception
\* is logged by sync_poll and it returns.
SpFetch(o) ==
    /\ MainRuns /\ pc = "sp_fetch"
    /\ OutcomeAllowed(o)
    /\ budget' = Spend(o)
    /\ LET r == fetch_default(o, remote[Len(fresh) + 1]) IN
       IF r.kind = "raise"
       THEN /\ pc' = AfterPollPc(spRet)
            /\ loc' = AfterPollLoc(spRet, loc)
            /\ sp' = [sp EXCEPT !.active = FALSE, !.done = TRUE]
            /\ did' = [did EXCEPT !.stale = {}, !.pushed = {}]
            /\ fresh' = <<>>
       ELSE /\ fresh' = Append(fresh, r.val)
            /\ IF Len(fresh) + 1 = Cardinality(Boxes)
               THEN pc' = "sp_compare" /\ sp' = [sp EXCEPT !.fetched = TRUE]
               ELSE pc' = "sp_fetch" /\ UNCHANGED sp
            /\ UNCHANGED <<loc, did>>
    /\ UNCHANGED <<keySet, wifi, remote, clock, proc, running, current_box_data, current_qr_url,
                   pusher_listener, data_lock, spRet, ticks, haltedBy, listenerVars, pushVars,
                   sigVars, hc, cbStart, cbResync, tk>>

\* sync_poll leaving the snapshot as it found it.
PollAssignKeeps(differs, old, new) == old

\* The snapshot sync_poll leaves: fresh_data if it differs, else the old one.
PollAssign(differs, old, new) == IF differs THEN new ELSE old

\* sync_poll logs "data changed" inside `if fresh_data != current_box_data`.
PollLogs(differs) == differs

\* with data_lock: if fresh_data != current_box_data: log; current_box_data = fresh_data
SpCompare ==
    /\ MainRuns /\ pc = "sp_compare" /\ data_lock = "free"
    /\ LET differs == fresh # current_box_data IN
       /\ current_box_data' = PollAssign(differs, current_box_data, fresh)
       /\ sp' = [sp EXCEPT !.differed = differs, !.logged = PollLogs(differs)]
       /\ cbResync' = (cbResync \/ (cbPc # "idle" /\ differs))
    /\ pc' = "sp_render"
    /\ UNCHANGED <<envVars, proc, running, current_qr_url, pusher_listener, data_lock, loc, fresh,
                   spRet, ticks, haltedBy, listenerVars, pushVars, sigVars, did, hc, cbStart, tk>>

\* How many times sync_poll calls refresh_display: only when the data changed.
PollRendersIfChanged(differs) == IF differs THEN 1 ELSE 0

\* How many times sync_poll calls refresh_display after the comparison.
PollRenders(differs) == 1

\* refresh_display of sync_poll: with data_lock: display_boxes(...)
SpRenderStart ==
    /\ MainRuns /\ pc = "sp_render"
    /\ IF PollRenders(sp.differed) = 0
       THEN /\ pc' = AfterPollPc(spRet)
            /\ loc' = AfterPollLoc(spRet, loc)
            /\ sp' = [sp EXCEPT !.active = FALSE, !.done = TRUE]
            /\ fresh' = <<>>
            /\ UNCHANGED <<data_lock, hc>>
       ELSE /\ data_lock = "free"
            /\ data_lock' = "main"
            /\ sp' = [sp EXCEPT !.renders = @ + 1]
            /\ hc' = IF spRet = "reconnect" THEN [hc EXCEPT !.renders = @ + 1] ELSE hc
            /\ pc' = "sp_in_render"
            /\ UNCHANGED <<loc, fresh>>
    /\ did' = [did EXCEPT !.stale = {}, !.pushed = {}]
    /\ UNCHANGED <<envVars, proc, running, current_box_data, current_qr_url, pusher_listener,
                   spRet, ticks, haltedBy, listenerVars, pushVars, sigVars, cbStart,
                   cbResync, tk>>

\* display_boxes returns or raises (sync_poll's except logs it); sync_poll
\* returns to its caller.
SpRenderEnd ==
    /\ MainRuns /\ pc = "sp_in_render"
    /\ data_lock' = "free"
    /\ pc' = AfterPollPc(spRet)
    /\ loc' = AfterPollLoc(spRet, loc)
    /\ sp' = [sp EXCEPT !.active = FALSE, !.done = TRUE]
    /\ fresh' = <<>>
    /\ UNCHANGED <<envVars, proc, running, current_box_data, current_qr_url, pusher_listener,
                   spRet, ticks, haltedBy, listenerVars, pushVars, sigVars, did, hc,
                   cbStart, cbResync, tk>>

\* Sync poll every SYNC_POLL_INTERVAL.
TickSync ==
    /\ MainRuns /\ pc = "tick_sync"
    /\ IF Due(loc.now_mono, loc.last_sync_poll, SYNC_POLL_INTERVAL)
       THEN /\ loc' = [loc EXCEPT !.last_sync_poll = loc.now_mono]
            /\ sp' = [NoPoll EXCEPT !.active = TRUE]
            /\ tk' = [tk EXCEPT !.sync = TRUE]
            /\ spRet' = "periodic"
            /\ fresh' = <<>>
            /\ pc' = "sp_fetch"
       ELSE /\ pc' = "tick_health"
            /\ UNCHANGED <<loc, sp, spRet, fresh, tk>>
    /\ UNCHANGED <<envVars, proc, running, current_box_data, current_qr_url, pusher_listener,
                   data_lock, ticks, haltedBy, listenerVars, pushVars, sigVars, did, hc, cbStart,
                   cbResync>>

\* connected = pusher_listener is not None
HealthConnectedIfListener(listener, flag) == listener

\* connected = pusher_listener.connected if pusher_listener else False
HealthConnected(listener, flag) == IF listener THEN flag ELSE FALSE

\* Health report every CONNECTION_CHECK_INTERVAL: the connection flag is read
\* and report_health is entered.
TickHealth ==
    /\ MainRuns /\ pc = "tick_health"
    /\ IF Due(loc.now_mono, loc.last_health_report, CONNECTION_CHECK_INTERVAL)
       THEN /\ loc' = [loc EXCEPT !.last_health_report = loc.now_mono,
                                  !.connected = HealthConnected(pusher_listener, connected)]
            /\ tk' = [tk EXCEPT !.health = TRUE, !.connAtFire = connected]
            /\ pc' = "health_post"
       ELSE /\ pc' = "loop"
            /\ UNCHANGED <<loc, tk>>
    /\ UNCHANGED <<envVars, proc, running, current_box_data, current_qr_url, pusher_listener,
                   data_lock, fresh, spRet, ticks, haltedBy, listenerVars, pushVars, sigVars,
                   did, hc, sp, cbStart, cbResync>>

\* report_health(connected): requests.post succeeds, or fails with a
\* transport error or timeout that report_health's except logs; either way
\* it returns to the loop.
HealthPost(ok) ==
    /\ MainRuns /\ pc = "health_post"
    /\ tk' = [tk EXCEPT !.post = IF ok THEN "ok" ELSE "failed"]
    /\ pc' = "loop"
    /\ UNCHANGED <<envVars, proc, running, current_box_data, current_qr_url, pusher_listener,
                   data_lock, loc, fresh, spRet, ticks, haltedBy, listenerVars, pushVars, sigVars,
                   did, hc, sp, cbStart, cbResync>>

\* ---- backend and transport --------------------------------------------------------

\* sync_poll is between the start of its fetch-all and its write of the
\* snapshot.
Resyncing == sp.active /\ pc \in {"sp_fetch", "sp_compare"}

\* No box counted as read by a fetch-all under way.
AlreadyReadNever(k, got) == FALSE

\* fetch_all_boxes reads the boxes in the order of range(1, 5): box k has
\* been read once the results so far reach it.
AlreadyRead(k, got) == k <= Len(got)

\* The backend's data for box b changes; it publishes a file event, which a
\* subscribed transport receives.
RemoteChange(b, v) ==
    /\ proc = "alive"
    /\ budget.changes < MaxRemoteChanges
    /\ remote[b] # v
    /\ remote' = [remote EXCEPT ![b] = v]
    /\ budget' = [budget EXCEPT !.changes = @ + 1]
    /\ pending' = IF pushers > 0 THEN pending \cup {b} ELSE pending
    /\ did' = [did EXCEPT !.dropped = @ \ {b},
                          !.stale = IF Resyncing /\ AlreadyRead(b, fresh) THEN @ \cup {b} ELSE @]
    /\ UNCHANGED <<keySet, wifi, clock, mainVars, connected, on_box_update, pushers, pushVars,
                   sigVars, hc, sp, cbStart, cbResync, tk>>

\* _on_connect: pusher:connection_established
OnConnect ==
    /\ proc = "alive"
    /\ pushers > 0 /\ ~connected
    /\ connected' = TRUE
    /\ UNCHANGED <<envVars, mainVars, on_box_update, pushers, pending, pushVars, sigVars, histVars>>

\* _on_connection_failed / _on_error
OnConnectionLost ==
    /\ proc = "alive"
    /\ pushers > 0 /\ connected
    /\ connected' = FALSE
    /\ UNCHANGED <<envVars, mainVars, on_box_update, pushers, pending, pushVars, sigVars, histVars>>

\* ---- pusher_events.py: _on_file_event, and main.py: on_box_update ----------------

\* current_box_data[box_number] = new_data, written as a whole new dict that
\* holds only this box.
PatchOnly(data, k, new) == [j \in {k} |-> new]

\* current_box_data[box_number] = new_data
PatchEntry(data, k, new) == [j \in (DOMAIN data) \cup {k} |-> IF j = k THEN new ELSE data[j]]

\* if box_number:
InvokesUnguarded(truthy, registered) == truthy

\* if box_number and self.on_box_update:
Invokes(truthy, registered) == truthy /\ registered

\* _on_file_event with boxNumber = b: the callback is invoked if one is set,
\* otherwise the event is dropped.
PushEvent(b) ==
    /\ proc = "alive"
    /\ b \in pending /\ pushers > 0 /\ cbPc = "idle"
    /\ pending' = pending \ {b}
    /\ IF Invokes(b # 0, on_box_update)
       THEN /\ cbPc' = "fetch"
            /\ cbBox' = b
            /\ cbStart' = current_box_data
            /\ cbResync' = FALSE
            /\ UNCHANGED did
       ELSE /\ did' = [did EXCEPT !.drops = 1, !.dropped = @ \cup {b}]
            /\ UNCHANGED <<cbPc, cbBox, cbStart, cbResync>>
    /\ UNCHANGED <<envVars, mainVars, connected, on_box_update, pushers, cbNew, sigVars, hc, sp, tk>>

\* new_data = fetch_box_status(box_number); an exception is logged by
\* on_box_update's except.
CbFetch(o) ==
    /\ proc = "alive" /\ cbPc = "fetch"
    /\ OutcomeAllowed(o)
    /\ budget' = Spend(o)
    /\ LET r == fetch_default(o, remote[cbBox]) IN
       IF r.kind = "raise"
       THEN cbPc' = "idle" /\ cbBox' = 0 /\ cbNew' = <<>> /\ cbStart' = <<>> /\ cbResync' = FALSE
       ELSE cbPc' = "patch" /\ cbNew' = r.val /\ UNCHANGED <<cbBox, cbStart, cbResync>>
    /\ UNCHANGED <<keySet, wifi, remote, clock, mainVars, listenerVars, sigVars, did, hc, sp, tk>>

\* with data_lock: current_box_data[box_number] = new_data
CbPatch ==
    /\ proc = "alive" /\ cbPc = "patch" /\ data_lock = "free"
    /\ current_box_data' = PatchEntry(current_box_data, cbBox, cbNew)
    /\ cbPc' = "render"
    /\ did' = [did EXCEPT !.pushed = IF Resyncing THEN @ \cup {cbBox} ELSE @]
    /\ UNCHANGED <<envVars, pc, proc, running, current_qr_url, pusher_listener, data_lock, loc,
                   fresh, spRet, ticks, haltedBy, listenerVars, cbBox, cbNew, sigVars, hc, sp,
                   cbStart, cbResync, tk>>

\* refresh_display of the callback: with data_lock: display_boxes(...)
CbRenderStart ==
    /\ proc = "alive" /\ cbPc = "render" /\ data_lock = "free"
    /\ data_lock' = "push"
    /\ cbPc' = "in_render"
    /\ UNCHANGED <<envVars, pc, proc, running, current_box_data, current_qr_url, pusher_listener,
                   loc, fresh, spRet, ticks, haltedBy, listenerVars, cbBox, cbNew, sigVars,
                   histVars>>

\* display_boxes returns or raises (on_box_update's except logs it).
CbRenderEnd ==
    /\ proc = "alive" /\ cbPc = "in_render"
    /\ data_lock' = "free"
    /\ cbPc' = "idle" /\ cbBox' = 0 /\ cbNew' = <<>> /\ cbStart' = <<>> /\ cbResync' = FALSE
    /\ UNCHANGED <<envVars, pc, proc, running, current_box_data, current_qr_url, pusher_listener,
                   loc, fresh, spRet, ticks, haltedBy, listenerVars, sigVars, did, hc, sp, tk>>

\* ---- main.py: signal_handler ---------------------------------------------------------
\* A frame's position: h_disc (running is False, disconnect is next),
\* h_clear (the try is next), h_in_clear (clear_display is running inside
\* the try), h_in_sleep (sleep_display is running inside the finally, then
\* sys.exit); u_in_sleep is a frame whose finally clause runs sleep_display
\* while SystemExit propagates through it.

Top == handlers[Len(handlers)]

Front(st) == SubSeq(st, 1, Len(st) - 1)

SetTop(p) == [handlers EXCEPT ![Len(handlers)] = p]

\* SIGINT or SIGTERM arrives: the handler starts on the main thread, on top
\* of whatever runs there (the tick loop or an earlier handler), and sets
\* running = False.
Signal ==
    /\ proc = "alive"
    /\ did.signals < MaxSignals
    /\ did' = [did EXCEPT !.signals = @ + 1]
    /\ running' = FALSE
    /\ handlers' = Append(handlers, "h_disc")
    /\ UNCHANGED <<envVars, pc, proc, current_box_data, current_qr_url, pusher_listener, data_lock,
                   loc, fresh, spRet, ticks, haltedBy, listenerVars, pushVars, hc, sp, cbStart,
                   cbResync, tk>>

\* if pusher_listener: pusher_listener.disconnect()
HDisconnect ==
    /\ proc = "alive" /\ handlers # <<>> /\ Top = "h_disc"
    /\ IF pusher_listener
       THEN /\ did' = [did EXCEPT !.disconnects = @ + 1]
            /\ pushers' = IF pushers > 0 THEN pushers - 1 ELSE 0
            /\ connected' = FALSE
       ELSE UNCHANGED <<did, pushers, connected>>
    /\ handlers' = SetTop("h_clear")
    /\ UNCHANGED <<envVars, mainVars, on_box_update, pending, pushVars, hc, sp, cbStart, cbResync, tk>>

\* try: clear_display() is entered
HClearStart ==
    /\ proc = "alive" /\ handlers # <<>> /\ Top = "h_clear"
    /\ did' = [did EXCEPT !.clears = @ + 1]
    /\ handlers' = SetTop("h_in_clear")
    /\ UNCHANGED <<envVars, mainVars, listenerVars, pushVars, hc, sp, cbStart, cbResync, tk>>

\* sleep_display() called at the end of the try body, after clear_display.
SleepsAfterGoodClear(ok) == ok

\* try: clear_display() / except Exception: pass / finally: sleep_display():
\* sleep_display runs whether the clear went through or failed.
SleepsAfterClear(ok) == TRUE

\* clear_display ends: it went through, or the panel failed (clear_display
\* logs the failure; one that escaped it would be passed over by the
\* handler's except); finally: sleep_display() is entered. h_exit is the
\* position before sys.exit(0) of a frame that did not sleep. Spec takes
\* the clear that went through; SpecShutdown takes both.
HSleepStart(ok) ==
    /\ proc = "alive" /\ handlers # <<>> /\ Top = "h_in_clear"
    /\ did' = [did EXCEPT !.sleeps = IF SleepsAfterClear(ok) THEN @ + 1 ELSE @,
                          !.clearFailed = IF ok THEN @ ELSE 1]
    /\ handlers' = SetTop(IF SleepsAfterClear(ok) THEN "h_in_sleep" ELSE "h_exit")
    /\ UNCHANGED <<envVars, mainVars, listenerVars, pushVars, hc, sp, cbStart, cbResync, tk>>

\* SystemExit leaves the frames st from the innermost outwards: a frame
\* interrupted inside its try (h_in_clear) runs its finally clause, any
\* other frame is left at once. The frames that remain.
RECURSIVE Unwind(_)
Unwind(st) ==
    IF st = <<>> THEN <<>>
    ELSE IF st[Len(st)] = "h_in_clear" THEN Front(st) \o <<"u_in_sleep">>
    ELSE Unwind(Front(st))

\* The handler ends by returning to the code it interrupted.
HandlerReturns(st) == [stack |-> Front(st), exits |-> FALSE]

\* sys.exit(0) at the end of the handler: SystemExit propagates through the
\* interrupted frames; no frame of main.py catches it.
SysExit(st) == [stack |-> Unwind(Front(st)), exits |-> TRUE]

\* sleep_display returns and the innermost frame raises SystemExit:
\* sys.exit(0), or the end of a finally clause that ran during propagation.
HExit ==
    /\ proc = "alive" /\ handlers # <<>> /\ Top \in {"h_in_sleep", "u_in_sleep", "h_exit"}
    /\ LET r == IF Top \in {"h_in_sleep", "h_exit"} THEN SysExit(handlers)
                ELSE [stack |-> Unwind(Front(handlers)), exits |-> TRUE] IN
       /\ handlers' = r.stack
       /\ did' = IF r.stack # <<>> /\ r.stack[Len(r.stack)] = "u_in_sleep"
                 THEN [did EXCEPT !.sleeps = @ + 1] ELSE did
       /\ proc' = IF r.exits /\ r.stack = <<>> THEN "exited" ELSE proc
    /\ UNCHANGED <<envVars, pc, running, current_box_data, current_qr_url, pusher_listener,
                   data_lock, loc, fresh, spRet, ticks, haltedBy, listenerVars, pushVars, hc, sp,
                   cbStart, cbResync, tk>>

(***************************************************************************)
(* pusher_events.py: _on_file_event on any payload                        *)
(***************************************************************************)
\* A boxNumber value: its JSON type and the value: n for a number, s for the
\* text of a string, of a float's str() or of a boolean's str().
NoBox == [t |-> "none", n |-> 0, s |-> <<>>]

IntBox(k) == [t |-> "int", n |-> k, s |-> <<>>]

TextBox(type, text) == [t |-> type, n |-> 0, s |-> text]

BoxValues ==
    { NoBox,
      IntBox(0), IntBox(2), IntBox(7),
      TextBox("str", <<>>), TextBox("str", <<"2">>),
      TextBox("str", <<" ", "2", " ">>), TextBox("str", <<"a">>),
      TextBox("str", <<"2", ".", "5">>),
      TextBox("float", <<"2", ".", "5">>), TextBox("float", <<"0", ".", "0">>),
      TextBox("bool", <<"T", "r", "u", "e">>), TextBox("bool", <<"F", "a", "l", "s", "e">>) }

\* The event data: given as text or as an object; the text is a JSON object,
\* a JSON array, or no JSON at all; an object has a boxNumber or none.
Payloads ==
    { [text |-> tx, json |-> "object", box |-> b] : tx \in BOOLEAN, b \in BoxValues }
    \cup { [text |-> tx, json |-> "array", box |-> NoBox] : tx \in BOOLEAN }
    \cup { [text |-> TRUE, json |-> "invalid", box |-> NoBox] }

\* bool(box_number)
Truthy(b) ==
    CASE b.t = "none" -> FALSE
      [] b.t = "int" -> b.n # 0
      [] b.t = "str" -> b.s # <<>>
      [] b.t = "float" -> b.s # <<"0", ".", "0">>
      [] b.t = "bool" -> b.s = <<"T", "r", "u", "e">>

\* str(box_number)
Str(b) == IF b.t = "int" THEN Decimal(b.n) ELSE b.s

RECURSIVE StripLeft(_)
StripLeft(str) == IF str # <<>> /\ Head(str) = " " THEN StripLeft(Tail(str)) ELSE str

RECURSIVE StripRight(_)
StripRight(str) == IF str # <<>> /\ str[Len(str)] = " " THEN StripRight(Front(str)) ELSE str

\* str.strip()
Strip(str) == StripRight(StripLeft(str))

Unsigned(str) == IF str # <<>> /\ Head(str) \in {"-", "+"} THEN Tail(str) ELSE str

\* int(text) accepts an optional sign and decimal digits; anything else is
\* a ValueError.
IsIntLiteral(str) ==
    /\ Unsigned(str) # <<>>
    /\ \A i \in 1..Len(Unsigned(str)) : \E k \in 1..10 : DigitChar[k] = Unsigned(str)[i]

DigitOf(ch) == (CHOOSE k \in 1..10 : DigitChar[k] = ch) - 1

RECURSIVE DigitsValue(_)
DigitsValue(str) ==
    IF str = <<>> THEN 0 ELSE 10 * DigitsValue(Front(str)) + DigitOf(str[Len(str)])

\* int(text) of an integer literal
IntValue(str) == IF Head(str) = "-" THEN 0 - DigitsValue(Unsigned(str)) ELSE DigitsValue(Unsigned(str))

\* The try block of _on_file_event up to the call: the exception it raises
\* ("none" if none), whether the callback is called, and its argument.
Dispatch(p, registered) ==
    IF p.text /\ p.json = "invalid"
    THEN [exc |-> "JSONDecodeError", call |-> FALSE, arg |-> 0]
    ELSE IF p.json # "object"
    THEN [exc |-> "AttributeError", call |-> FALSE, arg |-> 0]
    ELSE IF ~Invokes(Truthy(p.box), registered)
    THEN [exc |-> "none", call |-> FALSE, arg |-> 0]
    ELSE IF ~IsIntLiteral(Strip(Str(p.box)))
    THEN [exc |-> "ValueError", call |-> FALSE, arg |-> 0]
    ELSE [exc |-> "none", call |-> TRUE, arg |-> IntValue(Strip(Str(p.box)))]

\* except (ValueError, json.JSONDecodeError)
CaughtParseErrors(exc) == exc \in {"JSONDecodeError", "ValueError"}

\* except Exception
Caught(exc) == exc \in {"JSONDecodeError", "AttributeError", "ValueError", "CallbackError"}

EventInit ==
    /\ evPayload \in Payloads
    /\ evCb \in {"none", "ok", "raises"}
    /\ evPc = "in"
    /\ evOut = [kind |-> "pending"]
    /\ evData = [b \in Boxes |-> "old"]

\* _on_file_event(data): the try block, the callback and the except clause.
OnFileEvent ==
    /\ evPc = "in"
    /\ evPc' = "done"
    /\ LET d == Dispatch(evPayload, evCb # "none")
           exc == IF d.call /\ evCb = "raises" THEN "CallbackError" ELSE d.exc
       IN /\ evOut' = [kind |-> IF exc = "none" \/ Caught(exc) THEN "return" ELSE "raise",
                       invoked |-> d.call, arg |-> d.arg, exc |-> exc]
          /\ evData' = IF d.call /\ evCb = "ok" THEN PatchEntry(evData, d.arg, "new") ELSE evData
    /\ UNCHANGED <<evPayload, evCb>>

(***************************************************************************)
(* Specifications                                                          *)
(***************************************************************************)
vars == <<tokenVars, fetchVars, eventVars, sysVars>>

EventIdle ==
    /\ evPayload = [text |-> FALSE, json |-> "object", box |-> NoBox]
    /\ evCb = "none"
    /\ evPc = "idle"
    /\ evOut = [kind |-> "idle"]
    /\ evData = <<>>

TokenIdle ==
    /\ tkCfg = [dev |-> <<>>, key |-> <<>>]
    /\ tkNowA = 0
    /\ tkNowB = 0
    /\ tkPc = "idle"
    /\ tkOutA = <<>>
    /\ tkOutB = <<>>

FetchIdle ==
    /\ fbBox = 1
    /\ fbRetries = 1
    /\ fbAttempt = 0
    /\ fbSleeps = 0
    /\ fbLast = "none"
    /\ fbResult = [kind |-> "idle"]

\* The system at rest, for the specifications of the pure functions.
SysIdle == keySet = FALSE /\ wifi = FALSE /\ proc = "idle" /\ SysStart

InitToken == TokenInit /\ FetchIdle /\ EventIdle /\ SysIdle

TokenNext ==
    \/ GenerateToken /\ UNCHANGED <<fetchVars, eventVars, sysVars>>
    \/ GetQrUrl /\ UNCHANGED <<fetchVars, eventVars, sysVars>>
    \/ SecondsUntilNextSlot /\ UNCHANGED <<fetchVars, eventVars, sysVars>>

SpecToken == InitToken /\ [][TokenNext]_vars

InitFetch == FetchInit /\ TokenIdle /\ EventIdle /\ SysIdle

FetchNext ==
    \/ FetchLoopEnd /\ UNCHANGED <<tokenVars, eventVars, sysVars>>
    \/ FetchStep /\ UNCHANGED <<tokenVars, eventVars, sysVars>>

SpecFetch == InitFetch /\ [][FetchNext]_vars

InitEvent == EventInit /\ TokenIdle /\ FetchIdle /\ SysIdle

EventNext ==
    \/ OnFileEvent /\ UNCHANGED <<tokenVars, fetchVars, sysVars>>

SpecEvent == InitEvent /\ [][EventNext]_vars

Init == SysInit /\ TokenIdle /\ FetchIdle /\ EventIdle

pureVars == <<tokenVars, fetchVars, eventVars>>

Next ==
    \/ \E ok \in BOOLEAN : BootDisplay(ok) /\ UNCHANGED pureVars
    \/ BootWifi /\ UNCHANGED pureVars
    \/ WifiUp /\ UNCHANGED pureVars
    \/ \E outcome \in {"ok", "error"} : BootConnect(outcome) /\ UNCHANGED pureVars
    \/ \E o \in LoopOutcomes : BootFetch(o) /\ UNCHANGED pureVars
    \/ MainSet /\ UNCHANGED pureVars
    \/ MainQr /\ UNCHANGED pureVars
    \/ \E ok \in BOOLEAN : MainDisplay(ok) /\ UNCHANGED pureVars
    \/ MainAttach /\ UNCHANGED pureVars
    \/ MainTimers /\ UNCHANGED pureVars
    \/ \E d \in Jumps : TickSleep(d) /\ UNCHANGED pureVars
    \/ TickRotate /\ UNCHANGED pureVars
    \/ RotRenderStart /\ UNCHANGED pureVars
    \/ \E ok \in BOOLEAN : RotRenderEnd(ok) /\ UNCHANGED pureVars
    \/ TickConn /\ UNCHANGED pureVars
    \/ \E outcome \in {"ok", "error"} : Reconnect(outcome) /\ UNCHANGED pureVars
    \/ \E o \in LoopOutcomes : SpFetch(o) /\ UNCHANGED pureVars
    \/ SpCompare /\ UNCHANGED pureVars
    \/ SpRenderStart /\ UNCHANGED pureVars
    \/ SpRenderEnd /\ UNCHANGED pureVars
    \/ TickSync /\ UNCHANGED pureVars
    \/ TickHealth /\ UNCHANGED pureVars
    \/ \E ok \in BOOLEAN : HealthPost(ok) /\ UNCHANGED pureVars
    \/ \E b \in Boxes, v \in RemoteValues : RemoteChange(b, v) /\ UNCHANGED pureVars
    \/ OnConnect /\ UNCHANGED pureVars
    \/ OnConnectionLost /\ UNCHANGED pureVars
    \/ \E b \in Boxes : PushEvent(b) /\ UNCHANGED pureVars
    \/ \E o \in LoopOutcomes : CbFetch(o) /\ UNCHANGED pureVars
    \/ CbPatch /\ UNCHANGED pureVars
    \/ CbRenderStart /\ UNCHANGED pureVars
    \/ CbRenderEnd /\ UNCHANGED pureVars
    \/ Signal /\ UNCHANGED pureVars
    \/ HDisconnect /\ UNCHANGED pureVars
    \/ HClearStart /\ UNCHANGED pureVars
    \/ HSleepStart(TRUE) /\ UNCHANGED pureVars
    \/ HExit /\ UNCHANGED pureVars

Spec == Init /\ [][Next]_vars

\* ---- the main thread and the signal handler, clear_display failing or not ------------

NextShutdown ==
    \/ \E ok \in BOOLEAN : BootDisplay(ok) /\ UNCHANGED pureVars
    \/ BootWifi /\ UNCHANGED pureVars
    \/ WifiUp /\ UNCHANGED pureVars
    \/ \E outcome \in {"ok", "error"} : BootConnect(outcome) /\ UNCHANGED pureVars
    \/ \E o \in LoopOutcomes : BootFetch(o) /\ UNCHANGED pureVars
    \/ MainSet /\ UNCHANGED pureVars
    \/ MainQr /\ UNCHANGED pureVars
    \/ \E ok \in BOOLEAN : MainDisplay(ok) /\ UNCHANGED pureVars
    \/ MainAttach /\ UNCHANGED pureVars
    \/ MainTimers /\ UNCHANGED pureVars
    \/ \E d \in Jumps : TickSleep(d) /\ UNCHANGED pureVars
    \/ TickRotate /\ UNCHANGED pureVars
    \/ RotRenderStart /\ UNCHANGED pureVars
    \/ \E ok \in BOOLEAN : RotRenderEnd(ok) /\ UNCHANGED pureVars
    \/ TickConn /\ UNCHANGED pureVars
    \/ \E outcome \in {"ok", "error"} : Reconnect(outcome) /\ UNCHANGED pureVars
    \/ \E o \in LoopOutcomes : SpFetch(o) /\ UNCHANGED pureVars
    \/ SpCompare /\ UNCHANGED pureVars
    \/ SpRenderStart /\ UNCHANGED pureVars
    \/ SpRenderEnd /\ UNCHANGED pureVars
    \/ TickSync /\ UNCHANGED pureVars
    \/ TickHealth /\ UNCHANGED pureVars
    \/ \E ok \in BOOLEAN : HealthPost(ok) /\ UNCHANGED pureVars
    \/ OnConnect /\ UNCHANGED pureVars
    \/ OnConnectionLost /\ UNCHANGED pureVars
    \/ Signal /\ UNCHANGED pureVars
    \/ HDisconnect /\ UNCHANGED pureVars
    \/ HClearStart /\ UNCHANGED pureVars
    \/ \E ok \in BOOLEAN : HSleepStart(ok) /\ UNCHANGED pureVars
    \/ HExit /\ UNCHANGED pureVars

SpecShutdown == Init /\ [][NextShutdown]_vars

\* ---- the tick loop running on without end --------------------------------------------

\* Seconds one iteration of the loop takes while it runs on: the sleep and
\* blocking work up to the connection check's or the resync's interval.
LiveJumps == {CONNECTION_CHECK_INTERVAL, SYNC_POLL_INTERVAL}

\* The earliest of the three last_* readings of time.monotonic().
Oldest(l) ==
    CHOOSE t \in {l.last_connection_check, l.last_sync_poll, l.last_health_report} :
        \A u \in {l.last_connection_check, l.last_sync_poll, l.last_health_report} : t <= u

\* The loop compares only differences now_mono - last_* and the slot numbers
\* with each other, so the readings are kept relative to the slot boundary
\* at or before the earliest last_*.
Epoch(l) == QR_INTERVAL_SECONDS * (Oldest(l) \div QR_INTERVAL_SECONDS)

Rebased(l, k) ==
    [l EXCEPT !.last_connection_check = @ - k, !.last_sync_poll = @ - k,
              !.last_health_report = @ - k, !.last_qr_slot = @ - (k \div QR_INTERVAL_SECONDS)]

\* while running: time.sleep(1); now_mono, now_unix, current_slot are read;
\* the iteration is not counted.
TickOn(d) ==
    /\ MainRuns /\ pc = "loop"
    /\ running
    /\ LET k == Epoch(loc)
           now == clock - k + d
       IN /\ clock' = now
          /\ loc' = [Rebased(loc, k) EXCEPT !.now_mono = now, !.current_slot = TimeSlot(Wall(now))]
          /\ tk' = [NoTick EXCEPT
                       !.began = TRUE,
                       !.dueRot = TimeSlot(Wall(now)) # Rebased(loc, k).last_qr_slot,
                       !.dueConn = pusher_listener /\ Due(now, Rebased(loc, k).last_connection_check,
                                                          CONNECTION_CHECK_INTERVAL),
                       !.dueSync = Due(now, Rebased(loc, k).last_sync_poll, SYNC_POLL_INTERVAL),
                       !.dueHealth = Due(now, Rebased(loc, k).last_health_report,
                                         CONNECTION_CHECK_INTERVAL)]
    /\ hc' = NoCheck
    /\ sp' = NoPoll
    /\ pc' = "tick_rot"
    /\ UNCHANGED <<keySet, wifi, remote, budget, proc, running, current_box_data, current_qr_url,
                   pusher_listener, data_lock, fresh, spRet, ticks, haltedBy, listenerVars,
                   pushVars, sigVars, did, cbStart, cbResync>>

\* The process with its key and the network up, no signal delivered.
InitLive == keySet = TRUE /\ wifi = TRUE /\ proc = "alive" /\ SysStart
            /\ TokenIdle /\ FetchIdle /\ EventIdle

\* The steps of the main thread while every fetch succeeds and the renderer
\* does not raise.
MainLive ==
    /\ \/ BootDisplay(TRUE)
       \/ BootWifi
       \/ BootConnect("ok")
       \/ BootFetch("object")
       \/ MainSet
       \/ MainQr
       \/ MainDisplay(TRUE)
       \/ MainAttach
       \/ MainTimers
       \/ \E d \in LiveJumps : TickOn(d)
       \/ TickRotate
       \/ RotRenderStart
       \/ RotRenderEnd(TRUE)
       \/ TickConn
       \/ \E outcome \in {"ok", "error"} : Reconnect(outcome)
       \/ SpFetch("object")
       \/ SpCompare
       \/ SpRenderStart
       \/ SpRenderEnd
       \/ TickSync
       \/ TickHealth
       \/ \E ok \in BOOLEAN : HealthPost(ok)
    /\ UNCHANGED pureVars

\* ---- the main thread alone, its first render taking time ------------------------------

NextClock ==
    \/ BootDisplay(TRUE) /\ UNCHANGED pureVars
    \/ BootWifi /\ UNCHANGED pureVars
    \/ BootConnect("ok") /\ UNCHANGED pureVars
    \/ BootFetch("object") /\ UNCHANGED pureVars
    \/ MainSet /\ UNCHANGED pureVars
    \/ MainQr /\ UNCHANGED pureVars
    \/ \E d \in BootRenderTimes : MainDisplayTakes(d) /\ UNCHANGED pureVars
    \/ MainAttach /\ UNCHANGED pureVars
    \/ MainTimers /\ UNCHANGED pureVars
    \/ \E d \in Jumps : TickSleep(d) /\ UNCHANGED pureVars
    \/ TickRotate /\ UNCHANGED pureVars
    \/ RotRenderStart /\ UNCHANGED pureVars
    \/ RotRenderEnd(TRUE) /\ UNCHANGED pureVars
    \/ TickConn /\ UNCHANGED pureVars
    \/ \E outcome \in {"ok", "error"} : Reconnect(outcome) /\ UNCHANGED pureVars
    \/ SpFetch("object") /\ UNCHANGED pureVars
    \/ SpCompare /\ UNCHANGED pureVars
    \/ SpRenderStart /\ UNCHANGED pureVars
    \/ SpRenderEnd /\ UNCHANGED pureVars
    \/ TickSync /\ UNCHANGED pureVars
    \/ TickHealth /\ UNCHANGED pureVars
    \/ \E ok \in BOOLEAN : HealthPost(ok) /\ UNCHANGED pureVars
    \/ OnConnect /\ UNCHANGED pureVars
    \/ OnConnectionLost /\ UNCHANGED pureVars

SpecClock == InitLive /\ [][NextClock]_vars

\* The steps of the transport's thread: _on_file_event and on_box_update.
PushLive ==
    /\ \/ \E b \in Boxes : PushEvent(b)
       \/ CbFetch("object")
       \/ CbPatch
       \/ CbRenderStart
       \/ CbRenderEnd
    /\ UNCHANGED pureVars

NextLive ==
    \/ BootDisplay(TRUE) /\ UNCHANGED pureVars
    \/ BootWifi /\ UNCHANGED pureVars
    \/ BootConnect("ok") /\ UNCHANGED pureVars
    \/ BootFetch("object") /\ UNCHANGED pureVars
    \/ MainSet /\ UNCHANGED pureVars
    \/ MainQr /\ UNCHANGED pureVars
    \/ MainDisplay(TRUE) /\ UNCHANGED pureVars
    \/ MainAttach /\ UNCHANGED pureVars
    \/ MainTimers /\ UNCHANGED pureVars
    \/ \E d \in LiveJumps : TickOn(d) /\ UNCHANGED pureVars
    \/ TickRotate /\ UNCHANGED pureVars
    \/ RotRenderStart /\ UNCHANGED pureVars
    \/ RotRenderEnd(TRUE) /\ UNCHANGED pureVars
    \/ TickConn /\ UNCHANGED pureVars
    \/ \E outcome \in {"ok", "error"} : Reconnect(outcome) /\ UNCHANGED pureVars
    \/ SpFetch("object") /\ UNCHANGED pureVars
    \/ SpCompare /\ UNCHANGED pureVars
    \/ SpRenderStart /\ UNCHANGED pureVars
    \/ SpRenderEnd /\ UNCHANGED pureVars
    \/ TickSync /\ UNCHANGED pureVars
    \/ TickHealth /\ UNCHANGED pureVars
    \/ \E ok \in BOOLEAN : HealthPost(ok) /\ UNCHANGED pureVars
    \/ \E b \in Boxes, v \in RemoteValues : RemoteChange(b, v) /\ UNCHANGED pureVars
    \/ OnConnect /\ UNCHANGED pureVars
    \/ OnConnectionLost /\ UNCHANGED pureVars
    \/ \E b \in Boxes : PushEvent(b) /\ UNCHANGED pureVars
    \/ CbFetch("object") /\ UNCHANGED pureVars
    \/ CbPatch /\ UNCHANGED pureVars
    \/ CbRenderStart /\ UNCHANGED pureVars
    \/ CbRenderEnd /\ UNCHANGED pureVars

\* The main thread and the transport's thread are each scheduled again and
\* again; the backend and the connection are under no obligation.
SpecLive == InitLive /\ [][NextLive]_vars /\ WF_vars(MainLive) /\ WF_vars(PushLive)

(***************************************************************************)
(* Claims about the token generator (checked under SpecToken)              *)
(***************************************************************************)
SameSlot(a, b) == (a \div 30) = (b \div 30)

\* C1: two timestamps of the same slot floor(t/I) give the same token and
\* the same QR URL; two timestamps of different slots give different ones.
C1_TokenPerSlot ==
    tkPc \in {"tok", "url"} =>
        IF SameSlot(IntOf(tkNowA), IntOf(tkNowB))
        THEN tkOutA = tkOutB
        ELSE tkOutA # tkOutB

\* Two different timestamps of one slot have produced the same token.
C1_Witness ==
    /\ tkPc = "tok"
    /\ IntOf(tkNowA) # IntOf(tkNowB)
    /\ SameSlot(IntOf(tkNowA), IntOf(tkNowB))
    /\ tkOutA = tkOutB

DefaultDevice == <<"p", "v", "f", "l", "l", "-", "0", "0", "2">>

IsScenario(a, b) ==
    /\ tkCfg.dev = DefaultDevice
    /\ tkPc = "tok"
    /\ IntOf(tkNowA) = a
    /\ IntOf(tkNowB) = b

\* C2 as stated: with interval 30 the slot at t = 100 is 3, t = 129 gives the
\* same slot and token as t = 100, and t = 130 gives a new slot and token.
C2_AsStated ==
    /\ IsScenario(100, 129) =>
        /\ tkOutA = Hmac(tkCfg.key, DefaultDevice \o <<"3">>)
        /\ tkOutB = tkOutA
    /\ IsScenario(129, 130) => tkOutB # tkOutA

\* C2 amended: with interval 30 the slot at t = 100 is 3, t = 119 gives the
\* same slot and token as t = 100, t = 120 gives a new slot (4) with a
\* different token, and t = 129 and t = 130 both lie in slot 4.
C2_SlotScenario ==
    /\ IsScenario(100, 119) =>
        /\ tkOutA = Hmac(tkCfg.key, DefaultDevice \o <<"3">>)
        /\ tkOutB = tkOutA
    /\ IsScenario(100, 120) =>
        /\ tkOutB = Hmac(tkCfg.key, DefaultDevice \o <<"4">>)
        /\ tkOutB # tkOutA
    /\ IsScenario(119, 120) => tkOutB # tkOutA
    /\ IsScenario(129, 130) =>
        /\ tkOutA = Hmac(tkCfg.key, DefaultDevice \o <<"4">>)
        /\ tkOutB = tkOutA

\* The tokens of t = 100 and t = 120 have been generated.
C2_Witness == IsScenario(100, 120) /\ tkOutA # <<>> /\ tkOutB # <<>>

\* C3 as stated: seconds_until_next_slot is in [0, interval) at every time,
\* slot boundaries included, and strictly decreasing within a slot.
C3_AsStated ==
    tkPc = "rem" =>
        /\ 0 <= tkOutA
        /\ tkOutA < 30 * SubSec
        /\ (tkNowA < tkNowB /\ SameSlot(IntOf(tkNowA), IntOf(tkNowB))) => tkOutB < tkOutA

\* C3 amended: seconds_until_next_slot is in (0, interval] at every time (it
\* is the whole interval exactly on a slot boundary), and strictly
\* decreasing within a slot.
C3_RemainingRange ==
    tkPc = "rem" =>
        /\ 0 < tkOutA
        /\ tkOutA <= 30 * SubSec
        /\ (tkNowA % (30 * SubSec) = 0) <=> (tkOutA = 30 * SubSec)
        /\ (tkNowA < tkNowB /\ SameSlot(IntOf(tkNowA), IntOf(tkNowB))) => tkOutB < tkOutA

\* The function has been applied exactly on a slot boundary and a later
\* reading of the same slot.
C3_Witness ==
    /\ tkPc = "rem"
    /\ tkNowA = 90 * SubSec
    /\ tkNowB > tkNowA
    /\ SameSlot(IntOf(tkNowA), IntOf(tkNowB))
    /\ tkOutA = 30 * SubSec

(***************************************************************************)
(* Claims about fetch_box_status (checked under SpecFetch)                 *)
(***************************************************************************)
\* C4: fetch_box_status never raises and always returns a snapshot; when the
\* attempts are exhausted by failures the snapshot is empty with an error.
C4_FetchNeverRaises ==
    fbResult.kind # "pending" =>
        /\ fbResult.kind = "return"
        /\ IsSnapshot(fbResult.val)
        /\ fbLast # "object" => (fbResult.val.empty /\ fbResult.val.error # "none")

(***************************************************************************)
(* Claims about the running system (checked under Spec)                    *)
(***************************************************************************)
SameEntry(j) == j \in DOMAIN current_box_data /\ current_box_data[j] = cbStart[j]

\* C5: while the callback on_box_update(k) runs and no sync_poll replaces the
\* snapshot, every entry other than k is as it was when the callback began;
\* once the callback has patched, entry k holds the data it fetched.
C5_PatchTouchesOnlyK ==
    (cbPc # "idle" /\ ~cbResync) =>
        /\ \A j \in (DOMAIN cbStart) \ {cbBox} : SameEntry(j)
        /\ cbPc \in {"fetch", "patch"} => SameEntry(cbBox)
        /\ cbPc \in {"render", "in_render"} =>
               (cbBox \in DOMAIN current_box_data /\ current_box_data[cbBox] = cbNew)

\* A callback has patched its box with new data while the tick loop was in
\* the middle of a tick.
C5_Witness ==
    /\ cbPc = "render" /\ ~cbResync
    /\ current_box_data[cbBox] # cbStart[cbBox]
    /\ pc \in {"tick_rot", "rot_render", "tick_conn", "tick_health", "health_post"}

C7_NoKeyStillRuns == ~keySet => haltedBy # "connect"

InReconnect ==
    \/ pc \in {"tick_conn", "reconnect"}
    \/ pc \in {"sp_fetch", "sp_compare", "sp_render", "sp_in_render"} /\ spRet = "reconnect"

\* C8: a health check that found the listener disconnected has, when it is
\* over, called connect() once and performed one fetch-all followed by one
\* render; one that found it connected has done none of the three.
C8_ReconnectResyncs ==
    (hc.fired /\ ~InReconnect) =>
        IF hc.wasConnected
        THEN hc.connects = 0 /\ hc.fetchAlls = 0 /\ hc.renders = 0
        ELSE hc.connects = 1 /\ hc.fetchAlls = 1 /\ hc.renders = 1

\* C9: listener disconnect, display clear and display sleep each run at most
\* once, however many termination signals arrive.
C9_TeardownOnce == did.disconnects <= 1 /\ did.clears <= 1 /\ did.sleeps <= 1

\* C10: once a termination signal has been delivered the tick loop takes no
\* further step: no timer action starts, and a resync or health report that
\* was in flight never completes.
C10_NoStepAfterSignal ==
    [][did.signals > 0 =>
          /\ pc' = pc
          /\ loc' = loc
          /\ fresh' = fresh
          /\ sp' = sp
          /\ hc' = hc
          /\ ticks' = ticks]_vars

\* The process has exited on a signal that arrived while a resync was
\* fetching, with part of the boxes fetched.
C10_Witness ==
    /\ proc = "exited"
    /\ pc = "sp_fetch" /\ Len(fresh) > 0
    /\ did.signals > 0

\* C11: once the push callback is attached, the snapshot and the token are
\* accessed only under data_lock: no step changes current_box_data or
\* current_qr_url while the other context holds the lock.
C11_AccessUnderLock ==
    [][(on_box_update /\ (current_qr_url' # current_qr_url \/ current_box_data' # current_box_data))
          => data_lock = "free"]_vars

RunningPcs ==
    {"loop", "tick_rot", "rot_render", "rot_in_render", "tick_conn", "reconnect", "sp_fetch",
     "sp_compare", "sp_render", "sp_in_render", "tick_sync", "tick_health", "health_post"}

\* C13: in the Running phase no failure of an external operation escapes the
\* tick loop, a renderer failure during the rotation re-render included: the
\* process never crashes there and exits only through the shutdown sequence.
C13_NoFailureEscapes ==
    pc \in RunningPcs =>
        /\ proc # "crashed"
        /\ proc = "exited" => (did.signals > 0 /\ did.sleeps > 0)

\* C14: the box-update callback never runs while none is registered: a file
\* event handled before main attached on_box_update starts no callback.
C14_NoCallbackBeforeAttach == ~on_box_update => (cbPc = "idle" /\ cbBox = 0 /\ cbStart = <<>>)

\* A file event arrived after connect() succeeded and before main attached
\* the callback, and was dropped; main went on booting.
C14_Witness ==
    /\ did.drops = 1 /\ pending = {} /\ pushers > 0
    /\ ~on_box_update /\ cbPc = "idle"
    /\ pc = "main_attach" /\ proc = "alive"

\* The payloads the claim calls malformed: text that is no JSON, an object
\* without boxNumber, and a boxNumber that is no integer.
MalformedBoxes ==
    { NoBox, TextBox("str", <<"a">>), TextBox("str", <<"2", ".", "5">>),
      TextBox("float", <<"2", ".", "5">>), TextBox("bool", <<"T", "r", "u", "e">>) }

Malformed(p) == p.json = "invalid" \/ (p.json = "object" /\ p.box \in MalformedBoxes)

\* C16: _on_file_event never raises, whatever the payload and whatever the
\* callback does; on a malformed payload the callback is not invoked and
\* the snapshot is unchanged; a well-formed boxNumber 2 (number or text)
\* reaches a registered callback as the integer 2.
C16_MalformedDropped ==
    evPc = "done" =>
        /\ evOut.kind = "return"
        /\ Malformed(evPayload) => (~evOut.invoked /\ evData = [b \in Boxes |-> "old"])
        /\ (evPayload.json = "object" /\ evCb # "none"
              /\ evPayload.box \in {IntBox(2), TextBox("str", <<"2">>),
                                     TextBox("str", <<" ", "2", " ">>)})
             => (evOut.invoked /\ evOut.arg = 2)

\* A boxNumber "a" reached a listener with a registered callback and was
\* dropped on the ValueError of int().
C16_Witness ==
    /\ evPc = "done" /\ evCb = "ok"
    /\ evPayload.box = TextBox("str", <<"a">>)
    /\ evOut.exc = "ValueError" /\ ~evOut.invoked /\ evOut.kind = "return"

\* C17: a fetch-all that has ended returned a mapping of all four boxes, each
\* entry a snapshot, the failed ones flagged as errors: neither the boot's
\* fetch-all nor a sync_poll's ever ends without its mapping.
C17_FetchAllTotal ==
    /\ haltedBy # "fetch"
    /\ sp.done => sp.fetched
    /\ \A i \in 1..Len(fresh) : IsSnapshot(fresh[i])

\* C18: a push callback that has fetched its box is never kept waiting for
\* data_lock while the tick loop renders.
C18_PushNotBlocked == ~(cbPc \in {"patch", "render"} /\ data_lock = "main")

\* C19: a failed health POST is logged and the tick loop goes on (the process
\* does not crash and main is back in the loop); the report carries the
\* listener's connection state as it was when the report timer fired.
C19_HealthBestEffort ==
    /\ tk.health => loc.connected = tk.connAtFire
    /\ tk.post # "none" => (tk.health /\ proc # "crashed" /\ pc = "loop")

\* A health POST that reported "connected" failed after the listener had
\* lost its connection, and main is back in the loop.
C19_Witness ==
    /\ tk.post = "failed" /\ loc.connected /\ ~connected
    /\ pc = "loop" /\ proc = "alive" /\ handlers = <<>>

\* All four timers of the current tick have been evaluated.
TickOver == pc \in {"loop", "health_post"}

\* C20 as stated: each of the four timers fires in a tick exactly when its own
\* condition held at the start of the tick, whatever the others did; a
\* reconnect does not postpone the periodic resync.
C20_AsStated ==
    TickOver =>
        /\ tk.rot <=> tk.dueRot
        /\ hc.fired <=> tk.dueConn
        /\ tk.sync <=> tk.dueSync
        /\ tk.health <=> tk.dueHealth

\* C20 amended: rotation, connection-health check and health report fire
\* exactly when their own condition held; the periodic resync fires exactly
\* when its interval had elapsed and no reconnect ran a resync in this tick
\* (the reconnect restarts the resync interval).
C20_TimersPerTick ==
    TickOver =>
        /\ tk.rot <=> tk.dueRot
        /\ hc.fired <=> tk.dueConn
        /\ tk.sync <=> (tk.dueSync /\ hc.connects = 0)
        /\ tk.health <=> tk.dueHealth

\* A tick in which the resync interval had elapsed, the connection-health
\* check reconnected and resynced, the periodic resync did not fire, and the
\* rotation and the health report did.
C20_Witness ==
    /\ pc = "loop" /\ proc = "alive"
    /\ tk.dueSync /\ hc.connects = 1 /\ ~tk.sync
    /\ tk.rot /\ tk.health


\* The local snapshot holds, for every box, what a successful fetch of the
\* backend's present data returns.
Converged == current_box_data = [b \in Boxes |-> Snapshot(remote[b])]

RotationDone ==
    \/ pc \in {"tick_conn", "reconnect", "sp_fetch", "sp_compare", "sp_render", "sp_in_render",
               "tick_sync", "tick_health", "health_post"}
    \/ pc = "loop" /\ ticks > 0

\* The URL carrying the token of slot s.
UrlOfSlot(s) == get_qr_url(MainConfig, QR_INTERVAL_SECONDS * s)

\* C21: in every tick the slot is recomputed from the wall clock; when it
\* differs from the last observed slot the active token becomes the token of
\* the new slot and exactly one render is triggered by the rotation; when it
\* is equal no step of the tick changes the active token and the rotation
\* triggers no render.
C21_RotationPerTick ==
    /\ [](RotationDone =>
            /\ loc.current_slot = TimeSlot(Wall(clock))
            /\ IF tk.dueRot
               THEN /\ current_qr_url = UrlOfSlot(loc.current_slot)
                    /\ loc.last_qr_slot = loc.current_slot
                    /\ tk.rotRenders = 1
               ELSE tk.rotRenders = 0)
    /\ [][(tk.began /\ ~tk.dueRot /\ pc # "loop") => current_qr_url' = current_qr_url]_vars

\* A tick that found a new slot, replaced the token and rendered once.
C21_Witness ==
    /\ pc = "loop" /\ ticks > 0 /\ proc = "alive"
    /\ tk.dueRot /\ tk.rotRenders = 1
    /\ current_qr_url # UrlOfSlot(loc.current_slot - 1)
    /\ current_qr_url = UrlOfSlot(loc.current_slot)

\* C22: at the end of every tick the active token (current_qr_url) is the
\* token of the slot stored in last_qr_slot, also when a slot boundary is
\* crossed between the token computed at boot and the first recording of
\* last_qr_slot.
C22_TokenOfRecordedSlot ==
    (pc = "loop" /\ tk.began) => current_qr_url = UrlOfSlot(loc.last_qr_slot)

\* What a successful fetch can return for a box.
RemoteSnapshots == {Snapshot(v) : v \in RemoteValues}

\* The resync's write replaces entry k, written by a push update since the
\* resync began and equal to the backend's present value, with another value
\* of the backend: one that was fetched before the push update's fetch.
ResyncRegresses(k) ==
    /\ pc = "sp_compare" /\ pc' = "sp_render"
    /\ k \in did.pushed
    /\ current_box_data[k] = Snapshot(remote[k])
    /\ current_box_data'[k] # current_box_data[k]
    /\ current_box_data'[k] \in RemoteSnapshots

HandlerDisplayOps ==
    Cardinality({i \in 1..Len(handlers) : handlers[i] \in {"h_in_clear", "h_in_sleep", "u_in_sleep"}})

\* The display operations in progress: the tick loop's render, the push
\* callback's render, and the handlers' clear and sleep.
DisplayOps ==
    (IF pc \in {"rot_in_render", "sp_in_render"} THEN 1 ELSE 0)
    + (IF cbPc = "in_render" THEN 1 ELSE 0)
    + HandlerDisplayOps

\* C24: operations on the display hardware never overlap: at most one of
\* render, clear_display and sleep_display is executing at any time, across
\* the tick loop, the push-callback thread and the signal handler.
C24_DisplayExclusive == proc = "alive" => DisplayOps <= 1

\* The tick's resync (after a reconnect, or the periodic one) has not yet
\* written the snapshot.
ResyncToCome ==
    /\ proc = "alive"
    /\ pc \in {"tick_rot", "rot_render", "rot_in_render", "tick_conn", "reconnect", "sp_fetch",
               "sp_compare", "tick_sync"}

\* C25: a remote change whose push event was dropped because no callback was
\* attached yet is reflected in the snapshot no later than the resync of the
\* first tick that finds SYNC_POLL_INTERVAL elapsed since the Running phase
\* was entered, provided the fetches succeed (and no termination signal was
\* delivered).
C25_DroppedEventRepaired ==
    (tk.dueSync /\ budget.failures = 0 /\ did.signals = 0) =>
        \A k \in did.dropped : ResyncToCome \/ current_box_data[k] = Snapshot(remote[k])

\* C26: the connection flag is written only by the push listener: it is false
\* until connect() has subscribed a transport, becomes true only by
\* _on_connect, becomes false only by _on_connection_failed / _on_error or
\* by disconnect(); no step of main changes it, and connect() returning True
\* leaves it as it was.
C26_FlagOwnedByListener ==
    /\ []((pushers = 0 /\ did.disconnects = 0) => ~connected)
    /\ [][/\ (~connected /\ connected') => (OnConnect /\ pushers > 0)
          /\ (connected /\ ~connected') => (OnConnectionLost \/ HDisconnect)
          /\ (pc' # pc \/ loc' # loc) => connected' = connected
          /\ pushers' > pushers => connected' = connected]_vars

\* connect() returned True with the flag false, the flag became true later,
\* on the connection-established signal, and the connection check of a tick
\* read it as true.
C26_Witness ==
    /\ connected /\ pushers > 0
    /\ hc.fired /\ hc.wasConnected
    /\ pc = "loop" /\ proc = "alive"

\* C27: at any time the listener holds at most one live transport connection
\* and channel subscription: a connect() of the reconnect path tears an
\* earlier transport down (or reuses it) first.
C27_SingleTransport == proc = "alive" => pushers <= 1

====
